---- MODULE Spec2Model ----
(***************************************************************************)
(* Model of wptcoverage (src/src/main.rs): the per-line coverage           *)
(* classification (coverage_difference), the reconciliation of two suite   *)
(* maps (get_differences, zero_coverage) and the cached tree walk          *)
(* (get_suite_data, get, run, main).                                       *)
(*                                                                         *)
(* Option<T> is modelled as a sequence of length 0 (None) or 1 (Some).     *)
(* A BTreeMap is modelled as a function whose DOMAIN is its key set.       *)
(***************************************************************************)
EXTENDS Integers, Sequences, FiniteSets, TLC

\* ------------------------------------------------------------------ bounds
\* Longest hit-count sequence handed to coverage_difference directly.
MaxLen == 3
\* Longest coverage array of a node of a suite map.
MaxFileLen == 2
\* Largest hit count; -1 is the "not run" sentinel, so hit counts are -1..MaxHit.
MaxHit == 1

HitCounts == (-1)..MaxHit

RECURSIVE SeqsUpTo(_, _)
SeqsUpTo(S, n) ==
  IF n = 0 THEN {<<>>}
  ELSE LET shorter == SeqsUpTo(S, n - 1)
       IN  shorter \cup {Append(s, x) : s \in {t \in shorter : Len(t) = n - 1}, x \in S}

None == <<>>
Some(v) == <<v>>
IsSome(o) == Len(o) = 1
Unwrap(o) == o[1]

EmptyMap == [p \in {} |-> None]

\* BTreeMap::insert: the value stored under an existing key is replaced.
MapInsert(m, k, v) == [p \in DOMAIN m \cup {k} |-> IF p = k THEN v ELSE m[p]]

\* ------------------------------------------------- coverage_difference
CoverageType == {"NotRun", "NotCovered", "Suite1Only", "Suite2Only", "Both"}

\* A slip in the guard of the Suite1Only arm: y < 0 where the code has y <= 0.
ClassifyStrictArm(x, y) ==
  IF x = -1 /\ y = -1 THEN "NotRun"
  ELSE IF x = 0 /\ y = 0 THEN "NotCovered"
  ELSE IF x > 0 /\ y < 0 THEN "Suite1Only"
  ELSE IF x <= 0 /\ y > 0 THEN "Suite2Only"
  ELSE "Both"

\* The match of lines 177-197; the arms are tried in source order.
Classify(x, y) ==
  IF x = -1 /\ y = -1 THEN "NotRun"
  ELSE IF x = 0 /\ y = 0 THEN "NotCovered"
  ELSE IF x > 0 /\ y <= 0 THEN "Suite1Only"
  ELSE IF x <= 0 /\ y > 0 THEN "Suite2Only"
  ELSE "Both"

Min(a, b) == IF a < b THEN a ELSE b

\* The length of the first sequence taken whether or not the lengths agree.
LineCountFirst(c1, c2) == Len(c1)

\* let line_count = if len2 != len1 { min(len1, len2) } else { len1 }
LineCount(c1, c2) ==
  IF Len(c2) # Len(c1) THEN Min(Len(c1), Len(c2)) ELSE Len(c1)

\* eprintln!("WARNING: line counts differ") is reached iff the lengths differ.
WarnsLineCounts(c1, c2) == Len(c2) # Len(c1)

\* The loop also decrements on a NotCovered line.
LoopBodyDecrementsUncovered(acc, x, y) ==
  LET t == Classify(x, y)
  IN  [line_differences   |-> Append(acc.line_differences, t),
       coverable_count    |-> IF t \in {"NotRun", "NotCovered"}
                              THEN acc.coverable_count - 1 ELSE acc.coverable_count,
       suite_1_only_count |-> IF t = "Suite1Only"
                              THEN acc.suite_1_only_count + 1 ELSE acc.suite_1_only_count,
       suite_2_only_count |-> IF t = "Suite2Only"
                              THEN acc.suite_2_only_count + 1 ELSE acc.suite_2_only_count,
       both_count         |-> IF t = "Both" THEN acc.both_count + 1 ELSE acc.both_count]

\* One iteration of the for loop of lines 176-200 on the pair (x, y).
LoopBody(acc, x, y) ==
  LET t == Classify(x, y)
  IN  [line_differences   |-> Append(acc.line_differences, t),
       coverable_count    |-> IF t = "NotRun"
                              THEN acc.coverable_count - 1 ELSE acc.coverable_count,
       suite_1_only_count |-> IF t = "Suite1Only"
                              THEN acc.suite_1_only_count + 1 ELSE acc.suite_1_only_count,
       suite_2_only_count |-> IF t = "Suite2Only"
                              THEN acc.suite_2_only_count + 1 ELSE acc.suite_2_only_count,
       both_count         |-> IF t = "Both" THEN acc.both_count + 1 ELSE acc.both_count]

\* iter().zip(iter()): pairs are produced until either sequence is exhausted.
RECURSIVE ZipLoop(_, _, _, _)
ZipLoop(acc, c1, c2, i) ==
  IF i > Len(c1) \/ i > Len(c2) THEN acc
  ELSE ZipLoop(LoopBody(acc, c1[i], c2[i]), c1, c2, i + 1)

coverage_difference(c1, c2) ==
  LET line_count == LineCount(c1, c2)
      init == [line_differences   |-> <<>>,
               coverable_count    |-> line_count,
               suite_1_only_count |-> 0,
               suite_2_only_count |-> 0,
               both_count         |-> 0]
      fin == ZipLoop(init, c1, c2, 1)
  IN  [line_differences   |-> fin.line_differences,
       line_count         |-> line_count,
       coverable_count    |-> fin.coverable_count,
       covered_count      |-> fin.both_count + fin.suite_1_only_count
                                + fin.suite_2_only_count,
       suite_2_only_count |-> fin.suite_2_only_count,
       suite_1_only_count |-> fin.suite_1_only_count,
       both_count         |-> fin.both_count]

\* Every entry replaced by 0, the -1 entries included.
ZeroCoverageAllZero(other_data) == [i \in 1..Len(other_data) |-> 0]

\* other_data.iter().map(|x| if *x == -1 {-1} else {0}).collect()
zero_coverage(other_data) ==
  [i \in 1..Len(other_data) |-> IF other_data[i] = -1 THEN -1 ELSE 0]

\* ------------------------------------------------------ get_differences
\* A PathCoverage as get_differences reads it: `type` and `coverage`.
IsDirectory(node) == node.path_type = "directory"

\* Lines 220-237: the loop over suite_1_data, one key at a time.
RECURSIVE Suite1Loop(_, _, _, _)
Suite1Loop(rv, todo, suite_1_data, suite_2_data) ==
  IF todo = {} THEN rv
  ELSE LET path == CHOOSE p \in todo : TRUE
           suite_1_coverage == suite_1_data[path]
           next ==
             IF IsDirectory(suite_1_coverage) THEN rv
             ELSE IF ~IsSome(suite_1_coverage.coverage) THEN rv
             ELSE IF path \in DOMAIN suite_2_data
               THEN IF IsSome(suite_2_data[path].coverage)
                    THEN MapInsert(rv, path,
                           coverage_difference(Unwrap(suite_1_coverage.coverage),
                                               Unwrap(suite_2_data[path].coverage)))
                    ELSE rv
               ELSE MapInsert(rv, path,
                      coverage_difference(Unwrap(suite_1_coverage.coverage),
                                          zero_coverage(Unwrap(suite_1_coverage.coverage))))
       IN  Suite1Loop(next, todo \ {path}, suite_1_data, suite_2_data)

\* Lines 238-247: the loop over suite_2_data; it tests no path_type.
RECURSIVE Suite2Loop(_, _, _, _)
Suite2Loop(rv, todo, suite_1_data, suite_2_data) ==
  IF todo = {} THEN rv
  ELSE LET path == CHOOSE p \in todo : TRUE
           suite_2_coverage == suite_2_data[path]
           next ==
             IF path \notin DOMAIN suite_1_data /\ IsSome(suite_2_coverage.coverage)
             THEN MapInsert(rv, path,
                    coverage_difference(zero_coverage(Unwrap(suite_2_coverage.coverage)),
                                        Unwrap(suite_2_coverage.coverage)))
             ELSE rv
       IN  Suite2Loop(next, todo \ {path}, suite_1_data, suite_2_data)

get_differences(suite_1_data, suite_2_data) ==
  Suite2Loop(Suite1Loop(EmptyMap, DOMAIN suite_1_data, suite_1_data, suite_2_data),
             DOMAIN suite_2_data, suite_1_data, suite_2_data)

\* ------------------------------------------------ the coverage service
\* A path is the sequence of its characters, so that replace("/", "-") acts
\* on it character by character.
PathA   == <<"a">>
PathAB  == <<"a", "/", "b">>
PathABD == <<"a", "/", "b", "/", "d">>
PathAC  == <<"a", "/", "c">>
PathADashB == <<"a", "-", "b">>

\* The tree the service serves: a/ holds a/b/ and a/c, a/b/ holds a/b/d; a-b
\* is a file next to a/.
TreePaths == {PathA, PathAB, PathABD, PathAC, PathADashB}

TreeChildren(path) ==
  IF path = PathA THEN Some(<<PathAB, PathAC>>)
  ELSE IF path = PathAB THEN Some(<<PathABD>>)
  ELSE None

Suites == {"wpt", "mochitest"}

TreeCoverage(suite, path) ==
  IF path = PathABD THEN Some(IF suite = "wpt" THEN <<1, 0>> ELSE <<0, 0>>)
  ELSE IF path = PathAC THEN Some(<<-1, 1>>)
  ELSE IF path = PathADashB THEN Some(IF suite = "wpt" THEN <<0>> ELSE <<1>>)
  ELSE None

\* The PathCoverage the service answers for path=, suite= (lines 60-73).
ServiceDoc(suite, path) ==
  [path      |-> path,
   path_type |-> IF IsSome(TreeChildren(path)) THEN "directory" ELSE "file",
   children  |-> TreeChildren(path),
   coverage  |-> TreeCoverage(suite, path)]

\* Bytes of a response body or of a cache file: the JSON of a document, a
\* prefix of it left by a failed write, or the body of an error response.
JsonOf(doc) == [kind |-> "json", doc |-> doc]
Truncated(body) == [kind |-> "truncated", doc |-> body.doc]
ErrorPage(doc) == [kind |-> "error_page", doc |-> doc]

RECURSIVE Descendants(_)
Descendants(path) ==
  {path} \cup
    (IF IsSome(TreeChildren(path))
     THEN UNION {Descendants(Unwrap(TreeChildren(path))[i]) :
                   i \in 1..Len(Unwrap(TreeChildren(path)))}
     ELSE {})

\* The paths reachable from the roots in the served tree.
Reachable(roots) == UNION {Descendants(roots[i]) : i \in 1..Len(roots)}

\* ------------------------------------------------------------------ get
NetOutcomes == {"ok", "send_error", "http_error"}

\* The status of the response is not checked: an error body is returned as Ok.
GetIgnoresStatus(net, doc) ==
  IF net = "ok" THEN [ok |-> TRUE, body |-> JsonOf(doc)]
  ELSE IF net = "http_error" THEN [ok |-> TRUE, body |-> ErrorPage(doc)]
  ELSE [ok |-> FALSE, body |-> ErrorPage(doc)]

\* Lines 43-58: req.send()? fails on a request failure, error_for_status_ref()?
\* on a non-success status; otherwise the body is returned.
Get(net, doc) ==
  IF net = "ok" THEN [ok |-> TRUE, body |-> JsonOf(doc)]
  ELSE [ok |-> FALSE, body |-> ErrorPage(doc)]

\* ------------------------------------------------------- get_suite_data
\* gecko_path.replace("/", "-")
ReplaceSlash(gecko_path) ==
  [i \in 1..Len(gecko_path) |-> IF gecko_path[i] = "/" THEN "-" ELSE gecko_path[i]]

\* suite_root joined with format!("{}.json", gecko_path.replace("/", "-"))
LocalPath(suite_name, gecko_path) ==
  <<suite_name, Append(ReplaceSlash(gecko_path), ".json")>>

\* The request is sent whether or not the cache file exists.
AlwaysFetch(files, local_path) == TRUE

\* if !local_path.exists()
NeedsFetch(files, local_path) == local_path \notin DOMAIN files

IoOutcomes == {"ok", "create_error", "write_error", "open_error"}

\* for file in children.iter() { stack.push(file.path.clone()) }
PushChildren(st, data) ==
  IF IsSome(data.children) THEN st \o Unwrap(data.children) ELSE st

\* ------------------------------------------------------------------ state
\* Most roots on one command line, and most runs after the first one.
MaxRoots == 2
MaxRuns == 1

VARIABLES
  \* one call of coverage_difference
  suite_1_coverage_vec, suite_2_coverage_vec, line_result, warned,
  \* one call of get_differences in each order
  suite_1_data, suite_2_data, diff_12, diff_21,
  \* run(): the command line, the position in run, get_suite_data's locals,
  \* the two returned maps, the printed differences, the exit code and error
  opt, pc, stack, rv, suite_data, differences, exit_code, error,
  \* the cache directory: local path -> bytes of the file
  files,
  \* what the last loop iteration of get_suite_data did
  last_op,
  \* File::create calls per local path, pops per walk and path, runs so far
  writes, visits, runs

lineVars == <<suite_1_coverage_vec, suite_2_coverage_vec, line_result, warned>>
mapVars  == <<suite_1_data, suite_2_data, diff_12, diff_21>>
runVars  == <<opt, pc, stack, rv, suite_data, differences, exit_code, error,
              files, last_op, writes, visits, runs>>
vars == <<lineVars, mapVars, runVars>>

NoOp == [path |-> <<>>, suite |-> "", gets |-> 0, net |-> "none", error |-> None]

AllLocalPaths == {LocalPath(s, p) : s \in Suites, p \in TreePaths}

\* base_paths.split(','): one to MaxRoots distinct root paths, in any order.
RootCandidates == {PathA, PathAB, PathADashB}
RootLists ==
  {r \in SeqsUpTo(RootCandidates, MaxRoots) :
     Len(r) >= 1 /\ \A i, j \in 1..Len(r) : i # j => r[i] # r[j]}

Opts == [suite_1 : {"wpt"}, suite_2 : Suites, base_paths : RootLists]

LineIdle ==
  /\ suite_1_coverage_vec = <<>> /\ suite_2_coverage_vec = <<>>
  /\ line_result = None /\ warned = FALSE

MapIdle ==
  /\ suite_1_data = EmptyMap /\ suite_2_data = EmptyMap
  /\ diff_12 = None /\ diff_21 = None

\* The process started on the command line o, the cache directory as it is.
StartRun(o) ==
  /\ opt' = o
  /\ pc' = "suite_1"
  /\ stack' = o.base_paths
  /\ rv' = EmptyMap
  /\ suite_data' = <<None, None>>
  /\ differences' = None
  /\ exit_code' = None
  /\ error' = None
  /\ last_op' = NoOp
  /\ visits' = [k \in 1..2 |-> [p \in TreePaths |-> 0]]

RunIdle ==
  /\ opt = [suite_1 |-> "wpt", suite_2 |-> "wpt", base_paths |-> <<PathA>>]
  /\ pc = "exit" /\ stack = <<>> /\ rv = EmptyMap
  /\ suite_data = <<None, None>> /\ differences = None
  /\ exit_code = None /\ error = None
  /\ files = EmptyMap /\ last_op = NoOp
  /\ writes = [f \in AllLocalPaths |-> 0]
  /\ visits = [k \in 1..2 |-> [p \in TreePaths |-> 0]]
  /\ runs = 0

\* ------------------------------------------------------------ run, main
Walk == IF pc = "suite_1" THEN 1 ELSE 2
CurrentSuite == IF pc = "suite_1" THEN opt.suite_1 ELSE opt.suite_2

\* One iteration of the while loop of lines 111-138. An Err leaves through
\* `?` to run and main: the diagnostic is printed and the process exits 1.
WalkStep ==
  /\ pc \in {"suite_1", "suite_2"}
  /\ stack # <<>>
  /\ \E net \in NetOutcomes, io \in IoOutcomes :
       LET suite_name == CurrentSuite
           gecko_path == stack[Len(stack)]
           popped == SubSeq(stack, 1, Len(stack) - 1)
           local_path == LocalPath(suite_name, gecko_path)
           fetch == NeedsFetch(files, local_path)
           resp == Get(net, ServiceDoc(suite_name, gecko_path))
           created == fetch /\ resp.ok /\ io # "create_error"
           \* lines 115-126
           fetched ==
             IF ~fetch THEN [err |-> None, files |-> files]
             ELSE IF ~resp.ok THEN [err |-> Some("Reqwest"), files |-> files]
             ELSE IF io = "create_error" THEN [err |-> Some("Io"), files |-> files]
             ELSE IF io = "write_error"
               THEN [err |-> Some("Io"),
                     files |-> MapInsert(files, local_path, Truncated(resp.body))]
             ELSE [err |-> None, files |-> MapInsert(files, local_path, resp.body)]
           \* lines 128-129
           err ==
             IF IsSome(fetched.err) THEN fetched.err
             ELSE IF io = "open_error" THEN Some("Io")
             ELSE IF fetched.files[local_path].kind # "json" THEN Some("Serde")
             ELSE None
           data == fetched.files[local_path].doc
       IN  /\ files' = fetched.files
           /\ writes' = IF created THEN [writes EXCEPT ![local_path] = @ + 1] ELSE writes
           /\ visits' = [visits EXCEPT ![Walk][gecko_path] = @ + 1]
           /\ last_op' = [path |-> gecko_path, suite |-> suite_name,
                          gets |-> IF fetch THEN 1 ELSE 0,
                          net |-> IF fetch THEN net ELSE "none",
                          error |-> err]
           /\ IF IsSome(err)
              THEN /\ pc' = "exit"
                   /\ error' = err
                   /\ exit_code' = Some(1)
                   /\ stack' = popped
                   /\ UNCHANGED rv
              ELSE /\ stack' = PushChildren(popped, data)
                   /\ rv' = MapInsert(rv, gecko_path, data)
                   /\ UNCHANGED <<pc, error, exit_code>>
  /\ UNCHANGED <<opt, suite_data, differences, runs, lineVars, mapVars>>

\* The work list is empty: Ok(rv) returns to run (lines 140, 282-283), which
\* starts the walk of the second suite or goes on to the differences.
WalkReturn ==
  /\ pc \in {"suite_1", "suite_2"}
  /\ stack = <<>>
  /\ suite_data' = [suite_data EXCEPT ![Walk] = Some(rv)]
  /\ rv' = EmptyMap
  /\ last_op' = NoOp
  /\ IF pc = "suite_1"
     THEN pc' = "suite_2" /\ stack' = opt.base_paths
     ELSE pc' = "report" /\ stack' = <<>>
  /\ UNCHANGED <<opt, differences, exit_code, error, files, writes, visits, runs,
                 lineVars, mapVars>>

\* Lines 285-310: the differences are computed and printed, run returns Ok.
Report ==
  /\ pc = "report"
  /\ differences' = Some(get_differences(Unwrap(suite_data[1]), Unwrap(suite_data[2])))
  /\ exit_code' = Some(0)
  /\ pc' = "exit"
  /\ last_op' = NoOp
  /\ UNCHANGED <<opt, stack, rv, suite_data, error, files, writes, visits, runs,
                 lineVars, mapVars>>

\* The tool is started again on the same cache directory.
NextRun ==
  /\ pc = "exit"
  /\ runs < MaxRuns
  /\ runs' = runs + 1
  /\ \E o \in Opts : StartRun(o)
  /\ UNCHANGED <<files, writes, lineVars, mapVars>>

Init ==
  /\ LineIdle /\ MapIdle
  /\ runs = 0
  /\ files = EmptyMap
  /\ writes = [f \in AllLocalPaths |-> 0]
  /\ \E o \in Opts :
       /\ opt = o /\ pc = "suite_1" /\ stack = o.base_paths /\ rv = EmptyMap
       /\ suite_data = <<None, None>> /\ differences = None
       /\ exit_code = None /\ error = None /\ last_op = NoOp
       /\ visits = [k \in 1..2 |-> [p \in TreePaths |-> 0]]

Next == WalkStep \/ WalkReturn \/ Report \/ NextRun

Spec == Init /\ [][Next]_vars

\* ------------------------------------- coverage_difference on its own
LineSeqs == SeqsUpTo(HitCounts, MaxLen)

LinesInit ==
  /\ suite_1_coverage_vec \in LineSeqs
  /\ suite_2_coverage_vec \in LineSeqs
  /\ line_result = None
  /\ warned = FALSE
  /\ MapIdle /\ RunIdle

\* coverage_difference(suite_1_coverage_vec, suite_2_coverage_vec), with the
\* warning it prints on the error stream.
CallCoverageDifference ==
  /\ line_result = None
  /\ line_result' = Some(coverage_difference(suite_1_coverage_vec, suite_2_coverage_vec))
  /\ warned' = WarnsLineCounts(suite_1_coverage_vec, suite_2_coverage_vec)
  /\ UNCHANGED <<suite_1_coverage_vec, suite_2_coverage_vec, mapVars, runVars>>

LinesNext == CallCoverageDifference

SpecLines == LinesInit /\ [][LinesNext]_vars

\* ----------------------------------------- get_differences on its own
PathJs == <<"a", ".", "j", "s">>
PathOther == <<"b", ".", "j", "s">>

\* A node of a suite map, as far as get_differences reads it.
Node(path_type, coverage) == [path_type |-> path_type, coverage |-> coverage]

FileSeqs == SeqsUpTo(HitCounts, MaxFileLen)

\* What a map may hold under PathJs: nothing, or a file or directory node with
\* or without a coverage array.
NodeChoices ==
  {None} \cup {Some(Node(ty, cov)) : ty \in {"file", "directory"},
                                     cov \in {None} \cup {Some(s) : s \in FileSeqs}}

\* What a map may hold under PathOther: nothing, or one fixed file.
OtherChoices == {None, Some(Node("file", Some(<<1, 0>>)))}

MakeMap(n, o) ==
  [p \in (IF IsSome(n) THEN {PathJs} ELSE {}) \cup (IF IsSome(o) THEN {PathOther} ELSE {})
     |-> IF p = PathJs THEN Unwrap(n) ELSE Unwrap(o)]

SuiteMaps == {MakeMap(n, o) : n \in NodeChoices, o \in OtherChoices}

MapsInit ==
  /\ suite_1_data \in SuiteMaps
  /\ suite_2_data \in SuiteMaps
  /\ diff_12 = None
  /\ diff_21 = None
  /\ LineIdle /\ RunIdle

\* get_differences(suite_1_data, suite_2_data)
CallGetDifferences ==
  /\ diff_12 = None
  /\ diff_12' = Some(get_differences(suite_1_data, suite_2_data))
  /\ UNCHANGED <<suite_1_data, suite_2_data, diff_21, lineVars, runVars>>

\* get_differences with the two suites exchanged
CallGetDifferencesSwapped ==
  /\ diff_12 # None
  /\ diff_21 = None
  /\ diff_21' = Some(get_differences(suite_2_data, suite_1_data))
  /\ UNCHANGED <<suite_1_data, suite_2_data, diff_12, lineVars, runVars>>

MapsNext == CallGetDifferences \/ CallGetDifferencesSwapped

SpecMaps == MapsInit /\ [][MapsNext]_vars

\* ================================================================ claims
NotRunCount(d) == Cardinality({i \in 1..Len(d) : d[i] = "NotRun"})

\* C1: for hit counts x, y >= -1 at the same index, the line is NotRun iff
\* x = -1 and y = -1, NotCovered iff x = 0 and y = 0, Suite1Only iff x > 0 and
\* y <= 0, Suite2Only iff x <= 0 and y > 0, and Both in every remaining case:
\* both > 0, and the mixed pairs (-1, 0) and (0, -1).
C1_Classification ==
  IsSome(line_result) =>
    LET d == Unwrap(line_result).line_differences
    IN  \A i \in 1..Len(d) :
          LET x == suite_1_coverage_vec[i]
              y == suite_2_coverage_vec[i]
              ty == d[i]
          IN  (x >= -1 /\ y >= -1) =>
                /\ ty \in CoverageType
                /\ (ty = "NotRun") <=> (x = -1 /\ y = -1)
                /\ (ty = "NotCovered") <=> (x = 0 /\ y = 0)
                /\ (ty = "Suite1Only") <=> (x > 0 /\ y <= 0)
                /\ (ty = "Suite2Only") <=> (x <= 0 /\ y > 0)
                /\ (ty = "Both") <=>
                     \/ (x > 0 /\ y > 0)
                     \/ (x = -1 /\ y = 0)
                     \/ (x = 0 /\ y = -1)

\* A call that classified the mixed pair (-1, 0), a pair (>0, 0) and a pair (0, >0).
C1_Witness ==
  /\ IsSome(line_result)
  /\ suite_1_coverage_vec = <<-1, 1, 0>>
  /\ suite_2_coverage_vec = <<0, 0, 1>>
  /\ Unwrap(line_result).line_differences = <<"Both", "Suite1Only", "Suite2Only">>

\* C5: line_count is min(len1, len2), exactly line_count classifications are
\* returned, the classification at index i depends only on the two entries at
\* index i, the entries from index min(len1, len2) on affect no count, and the
\* warning is printed iff the lengths differ; a result is returned either way.
C5_LengthMismatch ==
  IsSome(line_result) =>
    LET r == Unwrap(line_result)
        m == Min(Len(suite_1_coverage_vec), Len(suite_2_coverage_vec))
    IN  /\ r.line_count = m
        /\ Len(r.line_differences) = r.line_count
        /\ \A i \in 1..m :
             r.line_differences[i] =
               coverage_difference(<<suite_1_coverage_vec[i]>>,
                                   <<suite_2_coverage_vec[i]>>).line_differences[1]
        /\ r = coverage_difference(SubSeq(suite_1_coverage_vec, 1, m),
                                   SubSeq(suite_2_coverage_vec, 1, m))
        /\ warned <=> (Len(suite_1_coverage_vec) # Len(suite_2_coverage_vec))

\* A call on sequences of lengths 3 and 2 that warned and compared two lines.
C5_Witness ==
  /\ IsSome(line_result)
  /\ Len(suite_1_coverage_vec) = 3
  /\ Len(suite_2_coverage_vec) = 2
  /\ warned
  /\ Unwrap(line_result).line_count = 2

\* C6: coverable_count plus the number of NotRun lines equals line_count, for
\* inputs of equal or of different lengths.
C6_Coverable ==
  IsSome(line_result) =>
    LET r == Unwrap(line_result)
    IN  r.coverable_count + NotRunCount(r.line_differences) = r.line_count

\* A call on sequences of different lengths with a NotRun line and a coverable one.
C6_Witness ==
  /\ IsSome(line_result)
  /\ Len(suite_1_coverage_vec) # Len(suite_2_coverage_vec)
  /\ NotRunCount(Unwrap(line_result).line_differences) = 1
  /\ Unwrap(line_result).coverable_count = 1

InMapAsDirectory(m, p) == p \in DOMAIN m /\ IsDirectory(m[p])

\* C2: get_differences produces no entry for a path whose node is a directory
\* in either map, whatever the node holds, also when the path is in suite 2's
\* map only.
C2_NoDirectoryEntry ==
  IsSome(diff_12) =>
    \A p \in DOMAIN Unwrap(diff_12) :
      /\ ~InMapAsDirectory(suite_1_data, p)
      /\ ~InMapAsDirectory(suite_2_data, p)

\* C3: get_differences(A, B) and get_differences(B, A) have the same paths, and
\* per path the suite 1 only count of one is the suite 2 only count of the
\* other while the both, covered, coverable and line counts are equal.
C3_SwapMirrors ==
  (IsSome(diff_12) /\ IsSome(diff_21)) =>
    LET ab == Unwrap(diff_12)
        ba == Unwrap(diff_21)
    IN  /\ DOMAIN ab = DOMAIN ba
        /\ \A p \in DOMAIN ab \cap DOMAIN ba :
             /\ ab[p].suite_1_only_count = ba[p].suite_2_only_count
             /\ ab[p].suite_2_only_count = ba[p].suite_1_only_count
             /\ ab[p].both_count = ba[p].both_count
             /\ ab[p].covered_count = ba[p].covered_count
             /\ ab[p].coverable_count = ba[p].coverable_count
             /\ ab[p].line_count = ba[p].line_count

\* C4: a file path with a coverage sequence S in suite 1's map and absent from
\* suite 2's map gets an entry with line_count = Len(S), every entry of S above
\* 0 Suite1Only, every 0 entry NotCovered, every -1 entry NotRun, and
\* suite_2_only_count = both_count = 0.
C4_AbsentFromSuite2 ==
  IsSome(diff_12) =>
    \A p \in DOMAIN suite_1_data :
      ( /\ ~IsDirectory(suite_1_data[p])
        /\ IsSome(suite_1_data[p].coverage)
        /\ p \notin DOMAIN suite_2_data ) =>
        /\ p \in DOMAIN Unwrap(diff_12)
        /\ LET S == Unwrap(suite_1_data[p].coverage)
               r == Unwrap(diff_12)[p]
           IN  /\ r.line_count = Len(S)
               /\ Len(r.line_differences) = Len(S)
               /\ \A i \in 1..Len(S) :
                    /\ S[i] > 0 => r.line_differences[i] = "Suite1Only"
                    /\ S[i] = 0 => r.line_differences[i] = "NotCovered"
                    /\ S[i] = -1 => r.line_differences[i] = "NotRun"
               /\ r.suite_1_only_count = Cardinality({i \in 1..Len(S) : S[i] > 0})
               /\ r.suite_2_only_count = 0
               /\ r.both_count = 0

\* The file [1, -1] is in suite 1's map only and its entry has been produced.
C4_Witness ==
  /\ IsSome(diff_12)
  /\ PathJs \in DOMAIN suite_1_data
  /\ PathJs \notin DOMAIN suite_2_data
  /\ suite_1_data[PathJs] = Node("file", Some(<<1, -1>>))
  /\ PathJs \in DOMAIN Unwrap(diff_12)
  /\ Unwrap(diff_12)[PathJs].line_differences = <<"Suite1Only", "NotRun">>

\* C7: a finished walk has popped every path reachable from the roots exactly
\* once and no other path, and the returned map's key set is the set of
\* reachable paths.
C7_EachReachableOnce ==
  \A k \in 1..2 :
    IsSome(suite_data[k]) =>
      /\ DOMAIN Unwrap(suite_data[k]) = Reachable(opt.base_paths)
      /\ \A p \in TreePaths :
           visits[k][p] = IF p \in Reachable(opt.base_paths) THEN 1 ELSE 0

\* C8: a GET is issued only when the path's cache file does not exist, an
\* existing cache file is never written again, so each cache file is written
\* at most once and a later visit of the path is served from disk.
C8_Step ==
  /\ last_op'.gets > 0 =>
       LocalPath(last_op'.suite, last_op'.path) \notin DOMAIN files
  /\ \A f \in DOMAIN files : f \in DOMAIN files' /\ files'[f] = files[f]
  /\ \A f \in AllLocalPaths : writes'[f] <= 1
  /\ (last_op'.path # <<>> /\ LocalPath(last_op'.suite, last_op'.path) \in DOMAIN files) =>
       (last_op'.gets = 0 /\ writes' = writes)

C8_WriteOnce == [][C8_Step]_vars

\* In a later run a path was visited and served from its cache file, which
\* was written once.
C8_Witness ==
  /\ runs = 1
  /\ last_op.path # <<>>
  /\ last_op.gets = 0
  /\ last_op.error = None
  /\ writes[LocalPath(last_op.suite, last_op.path)] = 1

\* C9: a failed GET ends the walk with a transport error at once: one GET and
\* no retry, no cache file for the failing path, the earlier cache files
\* unchanged, no coverage map returned and no differences printed, exit code
\* 1; after that the process pops and fetches nothing more.
C9_Step ==
  /\ last_op'.net \in {"send_error", "http_error"} =>
       /\ pc' = "exit"
       /\ error' = Some("Reqwest")
       /\ exit_code' = Some(1)
       /\ last_op'.gets = 1
       /\ files' = files
       /\ LocalPath(last_op'.suite, last_op'.path) \notin DOMAIN files'
       /\ suite_data' = suite_data
       /\ suite_data'[Walk] = None
       /\ differences' = None
  /\ (pc = "exit" /\ error = Some("Reqwest")) =>
       /\ runs' = runs + 1
       /\ files' = files
       /\ writes' = writes
       /\ last_op' = NoOp

C9_GetFailureStops == [][C9_Step]_vars

\* The process has exited 1 on a non-success status, with cache files written
\* earlier in the walk.
C9_Witness ==
  /\ pc = "exit"
  /\ error = Some("Reqwest")
  /\ exit_code = Some(1)
  /\ last_op.net = "http_error"
  /\ DOMAIN files # {}
  /\ differences = None

\* C10: the node recorded under key p is the document the service returned
\* for path = p, in the map under construction and in the returned maps.
C10_NodeOfOwnPath ==
  /\ pc \in {"suite_1", "suite_2"} =>
       \A p \in DOMAIN rv : rv[p] = ServiceDoc(CurrentSuite, p)
  /\ IsSome(suite_data[1]) =>
       \A p \in DOMAIN Unwrap(suite_data[1]) :
         Unwrap(suite_data[1])[p] = ServiceDoc(opt.suite_1, p)
  /\ IsSome(suite_data[2]) =>
       \A p \in DOMAIN Unwrap(suite_data[2]) :
         Unwrap(suite_data[2])[p] = ServiceDoc(opt.suite_2, p)

====
